---- MODULE Spec2Model ----
(***************************************************************************)
(* Model of codemcp/tools/chmod.py: the chmod tool handler.                *)
(*                                                                         *)
(* An invocation of chmod() is a coroutine.  It runs without suspension    *)
(* from its entry to its first await (run_command), from there to its      *)
(* second await (commit_changes), and from there to its return; each of    *)
(* those stretches is one action.  The file system and the repository are  *)
(* shared state; everything else is local to the invocation.               *)
(***************************************************************************)
EXTENDS Integers, Sequences, FiniteSets, TLC

(***************************************************************************)
(* Bounds of the model.                                                    *)
(***************************************************************************)
MaxTasks == 2       \* invocation slots (coroutines the host may hold)
MaxCommits == 2     \* calls are accepted while the repository is shorter
MaxClock == 1       \* the clock stops advancing here

Tasks == 1..MaxTasks

(***************************************************************************)
(* Permission bits (stat.S_IXUSR and the bits "a" names for chmod(1)).     *)
(***************************************************************************)
S_IXUSR == 64
S_IXGRP == 8
S_IXOTH == 1

HasBit(m, b) == (m \div b) % 2 = 1
SetBit(m, b) == IF HasBit(m, b) THEN m ELSE m + b
ClearBit(m, b) == IF HasBit(m, b) THEN m - b ELSE m

Absent == -1
\* rw-r--r-- (0o644 = 420) with every combination of the three execute bits.
FileModes == { 420 + u + g + o : u \in {0, S_IXUSR}, g \in {0, S_IXGRP},
                                 o \in {0, S_IXOTH} }

(***************************************************************************)
(* Inputs.  chat_id is only handed on to commit_changes.                   *)
(***************************************************************************)
PathArgs == {"", "/r/a", "/r/./a", "/r/nofile"}
ModeArgs == {"a+x", "a-x", "u+x"}
ChatIds == {"chat-1"}
NoSignal == "None"
Signals == {NoSignal, "sig"}
AbsPaths == {"/r/a", "/r/nofile"}

(***************************************************************************)
(* Collaborators and library functions on paths.                           *)
(***************************************************************************)
normalize_file_path(path) == IF path = "/r/./a" THEN "/r/a" ELSE path

dirname(p) == "/r"

basename(p) == IF p = "/r/a" THEN "a" ELSE "nofile"

exists(files, p) == p \in DOMAIN files /\ files[p] # Absent

(***************************************************************************)
(* chmod(1) with the modes the tool passes: "a" names all three classes    *)
(* and is not filtered by the umask.                                       *)
(***************************************************************************)
ChmodApply_OwnerOnlyRevoke(mode, m) ==
    IF mode = "a+x"
    THEN SetBit(SetBit(SetBit(m, S_IXUSR), S_IXGRP), S_IXOTH)
    ELSE ClearBit(m, S_IXUSR)

ChmodApply(mode, m) ==
    IF mode = "a+x"
    THEN SetBit(SetBit(SetBit(m, S_IXUSR), S_IXGRP), S_IXOTH)
    ELSE ClearBit(ClearBit(ClearBit(m, S_IXUSR), S_IXGRP), S_IXOTH)

(***************************************************************************)
(* Strings are sequences of pieces: an f-string is the concatenation of    *)
(* its literal parts and its interpolated values.                          *)
(***************************************************************************)
Contains(s, piece) == \E k \in 1..Len(s) : s[k] = piece

NoExc == [type |-> "None", msg |-> <<>>]

PathMissingError == [type |-> "ValueError", msg |-> <<"File path must be provided">>]

FileNotFound_WrongError(path) ==
    [type |-> "ValueError", msg |-> <<"File path must be provided">>]

FileNotFound(path) ==
    [type |-> "FileNotFoundError", msg |-> <<"The file does not exist: ", path>>]

UnsupportedMode(mode) ==
    [type |-> "ValueError",
     msg |-> <<"Unsupported chmod mode: ", mode,
               ". Only 'a+x' and 'a-x' are supported.">>]

\* Lines 51-65: the checks before the try block, in the order of the code.
Validate(path, mode, files) ==
    IF path = "" THEN PathMissingError
    ELSE IF ~exists(files, normalize_file_path(path)) THEN FileNotFound(path)
    ELSE IF mode \notin {"a+x", "a-x"} THEN UnsupportedMode(mode)
    ELSE NoExc

is_executable_OtherBit(current_mode) == HasBit(current_mode, S_IXOTH)

is_executable(current_mode) == HasBit(current_mode, S_IXUSR)

AlreadyExecutable_Never(mode, current_mode) == FALSE

AlreadyExecutable(mode, current_mode) == mode = "a+x" /\ is_executable(current_mode)

AlreadyNonExecutable_Never(mode, current_mode) == FALSE

AlreadyNonExecutable(mode, current_mode) == mode = "a-x" /\ ~is_executable(current_mode)

AlreadyExecutableMsg(path) == <<"File '", path, "' is already executable">>

AlreadyNonExecutableMsg(path) == <<"File '", path, "' is already non-executable">>

action_msg(mode, path) ==
    IF mode = "a+x"
    THEN <<"Made file '", path, "' executable">>
    ELSE <<"Removed executable permission from file '", path, "'">>

description(mode, absolute_path) ==
    IF mode = "a+x"
    THEN <<"Make '", basename(absolute_path), "' executable">>
    ELSE <<"Remove executable permission from '", basename(absolute_path), "'">>

CommitFailedOutput_NoReason(mode, path, commit_message) ==
    action_msg(mode, path) \o <<", but failed to commit changes">>

CommitFailedOutput(mode, path, commit_message) ==
    action_msg(mode, path) \o <<", but failed to commit changes: ", commit_message>>

SuccessOutput(mode, path) == action_msg(mode, path) \o <<" and committed changes">>

error_message(e) == <<"Error executing chmod: ">> \o e.msg

render_result_for_assistant(output) ==
    IF "output" \in DOMAIN output THEN output.output ELSE <<>>

NoResult == [output |-> <<>>, durationMs |-> -1, resultForAssistant |-> <<>>]

Envelope_NoRendering(message, duration) ==
    [output |-> message, durationMs |-> duration, resultForAssistant |-> <<>>]

Envelope(message, duration) ==
    [output |-> message, durationMs |-> duration, resultForAssistant |-> message]

SuccessEnvelope(mode, path, duration) ==
    [output |-> SuccessOutput(mode, path), durationMs |-> duration,
     resultForAssistant |->
        render_result_for_assistant([output |-> SuccessOutput(mode, path),
                                     durationMs |-> duration])]

(***************************************************************************)
(* What the call to run_command passes.  The keyword arguments of lines    *)
(* 92-98 are cmd, cwd, capture_output, text and check; signal is the       *)
(* cancellation signal handed to the subprocess call.                      *)
(***************************************************************************)
NoRunArgs == [cmd |-> <<>>, cwd |-> "", capture_output |-> FALSE, text |-> FALSE,
              check |-> FALSE, signal |-> NoSignal]

RunArgs(mode, absolute_path, directory, signal) ==
    [cmd |-> <<"chmod", mode, absolute_path>>, cwd |-> directory,
     capture_output |-> TRUE, text |-> TRUE, check |-> TRUE, signal |-> NoSignal]

NoCommitArgs == [directory |-> "", description |-> <<>>, chat_id |-> "None"]

CommitArgs(directory, mode, absolute_path, chat_id) ==
    [directory |-> directory, description |-> description(mode, absolute_path),
     chat_id |-> chat_id]

(***************************************************************************)
(* Outcomes of the collaborators.                                          *)
(***************************************************************************)
RunOutcomes == {"ok", "nonzero", "fault"}

\* run_command ends a subprocess early only on a signal it was handed.
run_command(args, fired) ==
    RunOutcomes \cup (IF args.signal # NoSignal /\ fired THEN {"aborted"} ELSE {})

RunError(outcome) ==
    IF outcome = "nonzero"
    THEN [type |-> "CalledProcessError",
          msg |-> <<"Command returned non-zero exit status 1.">>]
    ELSE IF outcome = "aborted"
    THEN [type |-> "RuntimeError", msg |-> <<"Command aborted">>]
    ELSE [type |-> "OSError", msg |-> <<"[Errno 8] Exec format error">>]

CommitErrors == {"index.lock exists", "not a git repository"}
CommitOutcomes == {"ok", "raise"} \cup CommitErrors

CommitRaised == [type |-> "RuntimeError", msg |-> <<"commit_changes raised">>]

AfterRun_Unchecked(outcome) == "commit"

\* Where control goes when run_command comes back: check=True turns a
\* non-zero exit into an exception, which the except clause receives.
AfterRun(outcome) == IF outcome = "ok" THEN "commit" ELSE "except"

(***************************************************************************)
(* State.                                                                  *)
(***************************************************************************)
VARIABLES fs, repo, now, inv, hist, uncommitted
vars == <<fs, repo, now, inv, hist, uncommitted>>

Idle ==
    [pc |-> "idle", path |-> "", mode |-> "", chat_id |-> "None",
     signal |-> NoSignal, fired |-> FALSE, start_time |-> 0,
     absolute_path |-> "", directory |-> "", current_mode |-> Absent,
     runArgs |-> NoRunArgs, commitArgs |-> NoCommitArgs,
     result |-> NoResult, exc |-> NoExc,
     runCalls |-> 0, commitCalls |-> 0,
     runOutcome |-> "none", commitOutcome |-> "none",
     before |-> Absent, repo0 |-> 0]

InFlight(i) == inv[i].pc \in {"run", "commit"}
Ended(i) == inv[i].pc \in {"done", "raised"}

ModeOf(files, p) == IF p \in DOMAIN files THEN files[p] ELSE Absent

\* What is remembered of an invocation that has ended.
Summary(t, files, log) ==
    [path |-> t.path, mode |-> t.mode, pc |-> t.pc,
     before |-> t.before, after |-> ModeOf(files, normalize_file_path(t.path)),
     runOutcome |-> t.runOutcome, commitOutcome |-> t.commitOutcome,
     runCalls |-> t.runCalls, commitCalls |-> t.commitCalls,
     commits |-> Len(log) - t.repo0]

\* The last two invocations that ended, the latest first.
Remember(t, files, log) ==
    IF t.pc \in {"done", "raised"}
    THEN <<Summary(t, files, log)>> \o (IF hist = <<>> THEN <<>> ELSE <<hist[1]>>)
    ELSE hist

\* The permission change that was made and whose commit failed, until the
\* file's permissions change again.
NoUncommitted == [file |-> "", mode |-> ""]

Init ==
    /\ fs \in [AbsPaths -> FileModes \cup {Absent}]
    /\ fs["/r/nofile"] = Absent
    /\ fs["/r/a"] # Absent
    /\ repo = <<>>
    /\ now = 0
    /\ inv = [i \in Tasks |-> Idle]
    /\ hist = <<>>
    /\ uncommitted = NoUncommitted

Elapsed == IF now < MaxClock THEN {0, 1} ELSE {0}

(***************************************************************************)
(* Lines 49-98: entry, validation, the permission check, the two           *)
(* already-satisfied returns, and the call of run_command.                 *)
(***************************************************************************)
Entered(path, mode, chat_id, signal) ==
    [Idle EXCEPT !.path = path, !.mode = mode, !.chat_id = chat_id,
                 !.signal = signal, !.start_time = now,
                 !.before = ModeOf(fs, normalize_file_path(path)),
                 !.repo0 = Len(repo)]

Checked(t) ==
    [t EXCEPT !.absolute_path = normalize_file_path(t.path),
              !.directory = dirname(normalize_file_path(t.path)),
              !.current_mode = fs[normalize_file_path(t.path)]]

Enter(t) ==
    IF Validate(t.path, t.mode, fs) # NoExc
    THEN [t EXCEPT !.pc = "raised", !.exc = Validate(t.path, t.mode, fs)]
    ELSE IF AlreadyExecutable(t.mode, Checked(t).current_mode)
    THEN [Checked(t) EXCEPT !.pc = "done",
             !.result = Envelope(AlreadyExecutableMsg(t.path), now - t.start_time)]
    ELSE IF AlreadyNonExecutable(t.mode, Checked(t).current_mode)
    THEN [Checked(t) EXCEPT !.pc = "done",
             !.result = Envelope(AlreadyNonExecutableMsg(t.path), now - t.start_time)]
    ELSE [Checked(t) EXCEPT !.pc = "run",
             !.runArgs = RunArgs(t.mode, Checked(t).absolute_path,
                                 Checked(t).directory, t.signal),
             !.runCalls = @ + 1]

\* A call takes the lowest slot that holds no running invocation.  Under
\* Spec the caller awaits each call before it makes the next one.
FreeSlot(i) == ~InFlight(i) /\ \A j \in Tasks : j < i => InFlight(j)

Call(i) ==
    /\ FreeSlot(i)
    /\ \A j \in Tasks : ~InFlight(j)
    /\ Len(repo) < MaxCommits
    /\ \E path \in PathArgs, mode \in ModeArgs, chat_id \in ChatIds, signal \in Signals :
          /\ inv' = [inv EXCEPT ![i] = Enter(Entered(path, mode, chat_id, signal))]
          /\ hist' = Remember(inv'[i], fs, repo)
    /\ UNCHANGED <<fs, repo, now, uncommitted>>

(***************************************************************************)
(* Lines 92-115 and 140-147: run_command comes back.  The subprocess has   *)
(* changed the file when it exited with status 0.                          *)
(***************************************************************************)
Ran_Retry(t, outcome, time) ==
    IF AfterRun(outcome) = "commit"
    THEN [t EXCEPT !.pc = "commit", !.runOutcome = outcome,
             !.commitArgs = CommitArgs(t.directory, t.mode, t.absolute_path, t.chat_id),
             !.commitCalls = @ + 1]
    ELSE [t EXCEPT !.pc = "run", !.runCalls = @ + 1]

Ran(t, outcome, time) ==
    IF AfterRun(outcome) = "commit"
    THEN [t EXCEPT !.pc = "commit", !.runOutcome = outcome,
             !.commitArgs = CommitArgs(t.directory, t.mode, t.absolute_path, t.chat_id),
             !.commitCalls = @ + 1]
    ELSE [t EXCEPT !.pc = "done", !.runOutcome = outcome,
             !.result = Envelope(error_message(RunError(outcome)), time - t.start_time)]

RunCommandReturn(i) ==
    /\ inv[i].pc = "run"
    /\ \E outcome \in run_command(inv[i].runArgs, inv[i].fired), d \in Elapsed :
          /\ now' = now + d
          /\ fs' = IF outcome = "ok"
                   THEN [fs EXCEPT ![inv[i].runArgs.cmd[3]] =
                                      ChmodApply(inv[i].runArgs.cmd[2], @)]
                   ELSE fs
          /\ inv' = [inv EXCEPT ![i] = Ran(inv[i], outcome, now')]
          /\ hist' = Remember(inv'[i], fs', repo)
          /\ uncommitted' = IF fs' # fs THEN NoUncommitted ELSE uncommitted
    /\ UNCHANGED repo

(***************************************************************************)
(* Lines 111-147: commit_changes comes back, with (True, message), with    *)
(* (False, message) or with an exception.                                  *)
(***************************************************************************)
Reported(t, outcome, time) ==
    IF outcome = "raise"
    THEN Envelope(error_message(CommitRaised), time - t.start_time)
    ELSE IF outcome # "ok"
    THEN Envelope(CommitFailedOutput(t.mode, t.path, outcome), time - t.start_time)
    ELSE SuccessEnvelope(t.mode, t.path, time - t.start_time)

Committed(t, outcome, time) ==
    [t EXCEPT !.pc = "done", !.commitOutcome = outcome,
              !.result = Reported(t, outcome, time)]

commit_changes(log, args, outcome) == IF outcome = "ok" THEN Append(log, args) ELSE log

LeftUncommitted(t, outcome) ==
    IF outcome \in CommitErrors
    THEN [file |-> t.absolute_path, mode |-> t.mode]
    ELSE uncommitted

CommitReturn(i) ==
    /\ inv[i].pc = "commit"
    /\ \E outcome \in CommitOutcomes, d \in Elapsed :
          /\ now' = now + d
          /\ repo' = commit_changes(repo, inv[i].commitArgs, outcome)
          /\ inv' = [inv EXCEPT ![i] = Committed(inv[i], outcome, now')]
          /\ hist' = Remember(inv'[i], fs, repo')
          /\ uncommitted' = LeftUncommitted(inv[i], outcome)
    /\ UNCHANGED fs

(***************************************************************************)
(* The caller fires the cancellation signal it supplied while the          *)
(* subprocess runs.                                                        *)
(***************************************************************************)
Abort(i) ==
    /\ inv[i].pc = "run"
    /\ inv[i].signal # NoSignal
    /\ ~inv[i].fired
    /\ inv' = [inv EXCEPT ![i].fired = TRUE]
    /\ UNCHANGED <<fs, repo, now, hist, uncommitted>>

Next == \E i \in Tasks : Call(i) \/ RunCommandReturn(i) \/ CommitReturn(i) \/ Abort(i)

Spec == Init /\ [][Next]_vars

(***************************************************************************)
(* The host may hold several invocations at once: a call may start while   *)
(* another invocation is suspended at one of its awaits.  Under            *)
(* SpecOverlap every slot hosts one invocation, and each one after the     *)
(* first starts while the earlier ones are still in flight.                *)
(***************************************************************************)
OverlapCall(i) ==
    /\ FreeSlot(i)
    /\ inv[i].pc = "idle"
    /\ Len(repo) < MaxCommits
    /\ \E path \in PathArgs, mode \in ModeArgs, chat_id \in ChatIds, signal \in Signals :
          /\ inv' = [inv EXCEPT ![i] = Enter(Entered(path, mode, chat_id, signal))]
          /\ hist' = Remember(inv'[i], fs, repo)
    /\ UNCHANGED <<fs, repo, now, uncommitted>>

NextOverlap ==
    \E i \in Tasks : OverlapCall(i) \/ RunCommandReturn(i) \/ CommitReturn(i) \/ Abort(i)

SpecOverlap == Init /\ [][NextOverlap]_vars

TypeOK ==
    /\ now \in 0..MaxClock
    /\ Len(repo) <= MaxCommits
    /\ Len(hist) <= 2
    /\ \A i \in Tasks : inv[i].pc \in {"idle", "run", "commit", "done", "raised"}

(***************************************************************************)
(* Properties.                                                             *)
(***************************************************************************)
ValidModes == {"a+x", "a-x"}
ExecuteBits == {S_IXUSR, S_IXGRP, S_IXOTH}
Started(i) == inv[i].pc # "idle"
FileOf(i) == normalize_file_path(inv[i].path)
ExecutionError(out) == Len(out) >= 1 /\ out[1] = "Error executing chmod: "

\* C1: every invocation that has ended has returned a populated result to
\* its caller; none has ended with an exception escaping chmod().
C1_AlwaysReturnsResult ==
    \A i \in Tasks : Ended(i) =>
        /\ inv[i].pc = "done"
        /\ inv[i].exc = NoExc
        /\ inv[i].result # NoResult

\* C2: an invocation whose chmod subprocess exited non-zero or faulted has
\* made no commit_changes call, has recorded no commit, and has returned an
\* output that begins with the execution-error text.
C2_FailedMutationNeverCommitted ==
    \A i \in Tasks : inv[i].runOutcome \in {"nonzero", "fault", "aborted"} =>
        /\ inv[i].commitCalls = 0
        /\ inv[i].commitArgs = NoCommitArgs
        /\ Len(repo) = inv[i].repo0
        /\ inv[i].pc = "done"
        /\ ExecutionError(inv[i].result.output)

C2_Witness ==
    \E i \in Tasks : inv[i].pc = "done" /\ inv[i].runOutcome = "nonzero"
                     /\ inv[i].runCalls = 1

\* C3: an invocation with a+x on a file whose owner-execute bit was set, or
\* with a-x on a file whose owner-execute bit was clear, has returned the
\* 'already executable' / 'already non-executable' result, has called
\* neither run_command nor commit_changes, and has left the file's
\* permission bits and the repository as they were.
C3_Satisfied(i) ==
    /\ inv[i].current_mode # Absent
    /\ \/ inv[i].mode = "a+x" /\ HasBit(inv[i].current_mode, S_IXUSR)
       \/ inv[i].mode = "a-x" /\ ~HasBit(inv[i].current_mode, S_IXUSR)

C4_Repeated ==
    /\ Len(hist) = 2
    /\ hist[1].path = hist[2].path
    /\ hist[1].mode = hist[2].mode
    /\ hist[1].mode \in ValidModes
    /\ hist[2].before # Absent
    /\ hist[1].before = hist[2].after

C4_RepeatedApplicationOneCommit ==
    C4_Repeated => hist[1].commits + hist[2].commits <= 1

C4_Witness ==
    /\ C4_Repeated
    /\ hist[2].commits = 1
    /\ hist[1].runCalls = 0
    /\ hist[1].commits = 0

\* C5: an invocation whose subprocess succeeded and whose commit_changes
\* returned (False, M) has returned normally with an output that states the
\* change was made and contains M, with durationMs populated, and the file
\* holds the changed permission bits.
C5_CommitFailed(i) == inv[i].commitOutcome \in CommitErrors

C5_CommitFailurePartialSuccess ==
    \A i \in Tasks : C5_CommitFailed(i) =>
        /\ inv[i].pc = "done"
        /\ inv[i].exc = NoExc
        /\ inv[i].result.output[1] \in
              {"Made file '", "Removed executable permission from file '"}
        /\ Contains(inv[i].result.output, inv[i].path)
        /\ Contains(inv[i].result.output, inv[i].commitOutcome)
        /\ inv[i].result.durationMs \in Nat
        /\ fs[FileOf(i)] # inv[i].before
        /\ HasBit(fs[FileOf(i)], S_IXUSR) = (inv[i].mode = "a+x")

C5_Witness ==
    \E i \in Tasks : C5_CommitFailed(i) /\ inv[i].pc = "done"
                     /\ inv[i].commitOutcome = "index.lock exists"
                     /\ inv[i].result.durationMs = 1

\* C6: a cancellation signal supplied to chmod is handed to the run_command
\* call, and a subprocess whose signal fired while it ran is terminated:
\* run_command does not come back from it with any other outcome.
C6_SignalPropagated ==
    \A i \in Tasks :
        /\ (inv[i].runCalls > 0 /\ inv[i].signal # NoSignal)
              => inv[i].runArgs.signal = inv[i].signal
        /\ inv[i].fired => inv[i].runOutcome \in {"none", "aborted"}

\* C7: a+x and then a-x on the same existing file, both subprocesses and
\* both commits succeeding, leave the permission bits as they were before
\* the first call and record exactly two commits.
C7_RoundTrip ==
    /\ Len(hist) = 2
    /\ hist[2].mode = "a+x"
    /\ hist[1].mode = "a-x"
    /\ normalize_file_path(hist[1].path) = normalize_file_path(hist[2].path)
    /\ hist[2].before # Absent
    /\ hist[1].before = hist[2].after
    /\ hist[1].runOutcome = "ok" /\ hist[2].runOutcome = "ok"
    /\ hist[1].commitOutcome = "ok" /\ hist[2].commitOutcome = "ok"

C7_Restored ==
    /\ hist[1].after = hist[2].before
    /\ hist[1].commits + hist[2].commits = 2
    /\ Len(repo) >= 2
    /\ repo[Len(repo) - 1].description # repo[Len(repo)].description

\* C7 as claimed: for any file whose owner-execute bit is clear, whatever
\* its group and other execute bits are.
C7_RoundTripAnyGroupOther ==
    (C7_RoundTrip /\ ~HasBit(hist[2].before, S_IXUSR)) => C7_Restored

\* C7 as amended: for any file whose owner, group and other execute bits
\* are all clear.
C7_RoundTripNoExecuteBits ==
    (C7_RoundTrip /\ \A b \in ExecuteBits : ~HasBit(hist[2].before, b)) => C7_Restored

C7_Witness ==
    /\ C7_RoundTrip
    /\ \A b \in ExecuteBits : ~HasBit(hist[2].before, b)
    /\ \A b \in ExecuteBits : HasBit(hist[2].after, b)
    /\ Len(repo) = 2

\* C8: after an invocation with a+x that reported success or 'already
\* executable' the owner, group and other execute bits of the file are
\* set; after one with a-x that reported success or 'already
\* non-executable' they are all clear.
C8_Reported(i) ==
    /\ inv[i].pc = "done"
    /\ inv[i].result.output[Len(inv[i].result.output)] \in
          {"' is already executable", "' is already non-executable",
           " and committed changes"}

C8_DescriptionPostcondition ==
    \A i \in Tasks : C8_Reported(i) =>
        \A b \in ExecuteBits : HasBit(fs[FileOf(i)], b) = (inv[i].mode = "a+x")

\* C9: an invocation with a non-empty path and a mode outside {a+x, a-x}
\* has failed with the unsupported-mode error, which names the mode and
\* both valid options, whether or not the path exists, and has made no
\* subprocess call, no commit call and no permission change.
C9_UnsupportedMode ==
    \A i \in Tasks : (Started(i) /\ inv[i].path # "" /\ inv[i].mode \notin ValidModes) =>
        /\ Ended(i)
        /\ inv[i].exc.type = "ValueError"
        /\ inv[i].exc.msg = <<"Unsupported chmod mode: ", inv[i].mode,
                              ". Only 'a+x' and 'a-x' are supported.">>
        /\ inv[i].runCalls = 0
        /\ inv[i].commitCalls = 0
        /\ ModeOf(fs, FileOf(i)) = inv[i].before

\* C10: an invocation with a valid mode on a path that does not exist has
\* ended with a not-found indication, has called neither run_command nor
\* commit_changes, and has changed neither the file system nor the
\* repository.
C10_Missing(i) ==
    /\ Started(i)
    /\ inv[i].path # ""
    /\ inv[i].mode \in ValidModes
    /\ inv[i].before = Absent

NotFoundIndication(i) ==
    \/ inv[i].exc.type = "FileNotFoundError"
          /\ inv[i].exc.msg = <<"The file does not exist: ", inv[i].path>>
    \/ Contains(inv[i].result.output, "The file does not exist: ")

C10_NonExistentPath ==
    \A i \in Tasks : C10_Missing(i) =>
        /\ Ended(i)
        /\ NotFoundIndication(i)
        /\ inv[i].runCalls = 0
        /\ inv[i].commitCalls = 0
        /\ inv[i].runArgs = NoRunArgs
        /\ inv[i].commitArgs = NoCommitArgs
        /\ ModeOf(fs, FileOf(i)) = Absent
        /\ Len(repo) = inv[i].repo0

C10_Witness ==
    \E i \in Tasks : C10_Missing(i) /\ Ended(i) /\ inv[i].path = "/r/nofile"
                     /\ inv[i].mode = "a-x"

\* C11: every result dictionary chmod has returned, on every return path,
\* holds output, durationMs and a non-empty resultForAssistant, and its
\* resultForAssistant is render_result_for_assistant of that result, which
\* is its output.
C11_Returned(i) == inv[i].pc = "done"

C11_EnvelopeInvariant ==
    \A i \in Tasks : C11_Returned(i) =>
        /\ DOMAIN inv[i].result = {"output", "durationMs", "resultForAssistant"}
        /\ inv[i].result.output # <<>>
        /\ inv[i].result.durationMs \in Nat
        /\ inv[i].result.resultForAssistant # <<>>
        /\ inv[i].result.resultForAssistant = render_result_for_assistant(inv[i].result)
        /\ inv[i].result.resultForAssistant = inv[i].result.output

C11_Witness ==
    /\ Len(hist) = 2
    /\ hist[2].runCalls = 0 /\ hist[2].pc = "done"
    /\ hist[1].commitOutcome = "ok"
    /\ \E i \in Tasks : /\ C11_Returned(i)
                        /\ inv[i].commitOutcome = "ok"
                        /\ inv[i].result.resultForAssistant =
                              <<"Removed executable permission from file '", "/r/a",
                                "'", " and committed changes">>

\* C12: an invocation goes from validation to the short-circuit return or
\* to the subprocess, from the subprocess to the failure return or to the
\* commit, and from the commit to its return, never backwards: run_command
\* is called at most once and commit_changes at most once, commit_changes
\* only after run_command came back successfully, and run_command only
\* after the permission check (stat) has read the file's mode.
C12_Counts(i) ==
    /\ inv[i].runCalls <= 1
    /\ inv[i].commitCalls <= 1
    /\ inv[i].commitCalls = 1 => (inv[i].runCalls = 1 /\ inv[i].runOutcome = "ok")
    /\ inv[i].runCalls = 1 => (inv[i].current_mode # Absent
                               /\ inv[i].current_mode = inv[i].before)
    /\ inv[i].pc = "run" => (inv[i].runCalls = 1 /\ inv[i].commitCalls = 0
                             /\ inv[i].runOutcome = "none")
    /\ inv[i].pc = "commit" => (inv[i].commitCalls = 1 /\ inv[i].commitOutcome = "none")
    /\ inv[i].pc = "raised" => (inv[i].runCalls = 0 /\ inv[i].commitCalls = 0)

C12_Transitions ==
    {<<from, to>> : from \in {"idle", "done", "raised"}, to \in {"raised", "done", "run"}}
        \cup {<<"run", "done">>, <<"run", "commit">>, <<"commit", "done">>}

C12_Step(i) ==
    \/ inv'[i] = inv[i]
    \/ <<inv[i].pc, inv'[i].pc>> \in C12_Transitions
    \/ /\ inv[i].pc = "run" /\ inv'[i].pc = "run"
       /\ inv'[i].runCalls = inv[i].runCalls
       /\ inv'[i].runArgs = inv[i].runArgs

C12_ProtocolOrder ==
    /\ [](\A i \in Tasks : C12_Counts(i))
    /\ [][\A i \in Tasks : C12_Step(i)]_vars

C12_Witness ==
    \E i \in Tasks : /\ inv[i].pc = "done"
                     /\ inv[i].runCalls = 1 /\ inv[i].runOutcome = "ok"
                     /\ inv[i].commitCalls = 1 /\ inv[i].commitOutcome = "ok"
                     /\ inv[i].fired

\* C13: of two invocations with the same valid mode on the same existing
\* file, the second started while the first was suspended at an await, at
\* most one has called run_command and at most one has called
\* commit_changes.
C13_Overlapped(i, j) ==
    /\ i < j
    /\ Started(i) /\ Started(j)
    /\ inv[j].start_time >= inv[i].start_time
    /\ FileOf(i) = FileOf(j)
    /\ inv[i].mode = inv[j].mode
    /\ inv[i].mode \in ValidModes
    /\ inv[i].before # Absent

C13_ReentrantIdempotency ==
    \A i, j \in Tasks : C13_Overlapped(i, j) =>
        /\ inv[i].runCalls + inv[j].runCalls <= 1
        /\ inv[i].commitCalls + inv[j].commitCalls <= 1

\* C14: while a permission change whose commit failed is still in place,
\* every later invocation with the same file and mode has taken the
\* already-satisfied return with no run_command call and no commit_changes
\* call, and has recorded no commit.
C14_Reinvoked(i) ==
    /\ Started(i)
    /\ uncommitted # NoUncommitted
    /\ FileOf(i) = uncommitted.file
    /\ inv[i].mode = uncommitted.mode
    /\ inv[i].commitOutcome \notin CommitErrors

C14_UncommittedStaysUncommitted ==
    \A i \in Tasks : C14_Reinvoked(i) =>
        /\ inv[i].pc = "done"
        /\ inv[i].result.output[3] \in
              {"' is already executable", "' is already non-executable"}
        /\ inv[i].runCalls = 0
        /\ inv[i].commitCalls = 0
        /\ Len(repo) = inv[i].repo0

C14_Witness ==
    /\ \E i \in Tasks : C14_Reinvoked(i) /\ inv[i].mode = "a-x" /\ inv[i].path = "/r/./a"
    /\ Len(hist) = 2
    /\ hist[2].mode = "u+x"

====
